---- MODULE Spec2Model ----
(***************************************************************************)
(* Model of the Vue wrapper factory defineContainer                        *)
(* (packages/vue-output-target/vue-component-lib/utils.ts).                *)
(*                                                                         *)
(* One wrapper instance is modelled: its configuration (the arguments of   *)
(* defineContainer and the ambient navigation host), the inputs its parent *)
(* passes (props, attrs.class, attrs.onClick), the closure state of setup  *)
(* (modelPropValue, classes, containerRef), the underlying element (its    *)
(* class list and the listeners attached to it), the output of the last    *)
(* render (propsToAdd) and the effects of the last handler run (emits,     *)
(* navigate calls, warnings).                                              *)
(*                                                                         *)
(* Names are strings, so prefix tests and class splitting are computed on  *)
(* the characters as the code computes them.                               *)
(***************************************************************************)
EXTENDS Integers, Sequences, FiniteSets, TLC

VARIABLES
    cfg,             \* arguments of defineContainer + navManager of the app context
    props,           \* the reactive props object: declared key -> value
    attrsOnClick,    \* attrs.onClick: the caller's click handler of a wrapper that
                     \* does not declare onClick (Vue keeps it out of props)
    attrsClass,      \* attrs.class: the wrapper's reactive class input
    modelPropValue,  \* let modelPropValue (setup closure)
    classes,         \* const classes = new Set(...) (setup closure)
    mounted,         \* containerRef.value / vnode.el is defined
    listeners,       \* listeners added to the element, in order of addEventListener
    elClassList,     \* the element's live classList
    vnodeClass,      \* class string of the vnode produced by the last render
    propsToAdd,      \* propsToAdd of the last render: [class, fwd], fwd its other keys
    dispatched,      \* the DOM event the last step dispatched on the element, if any
    effects,         \* outputs of the last handler run, in order
    warned,          \* console.warn has been called
    gen              \* one call of reactProxyOutput: its arguments, position, outputs

vars == <<cfg, props, attrsOnClick, attrsClass, modelPropValue, classes, mounted,
          listeners, elClassList, vnodeClass, propsToAdd, dispatched, effects, warned,
          gen>>

---------------------------------------------------------------------------
(* Bounds of the model *)

\* longest component descriptor list passed to reactProxyOutput
MaxComponents == 2

---------------------------------------------------------------------------
(* Constants of utils.ts, lines 9-25 *)

UPDATE_VALUE_EVENT == "update:modelValue"
MODEL_VALUE == "modelValue"
ROUTER_LINK_VALUE == "routerLink"
ROUTER_PROP_PREFIX == "router"
ARIA_PROP_PREFIX == "aria"
\* const EMPTY_PROP = Symbol(): a value no caller can supply
EMPTY_PROP == "Symbol()"
\* JavaScript's undefined
UNDEFINED == "undefined"

---------------------------------------------------------------------------
(* Inputs drawn by the model *)

\* values a caller passes for a property, or an element holds in a property
Values == {"v1", "v2"}
\* values of attrs.class
ClassInputs == {UNDEFINED, "a", "b", "a  b"}
\* classes the underlying element adds to / removes from its own class list
ElementOwnClasses == {"x", "a"}
\* caller-supplied click handlers: none, one that returns, one that calls
\* ev.preventDefault()
ClickHandlers == {UNDEFINED, "plain", "preventDefault"}
\* name of the click handler key: props.onClick, propsToAdd.onClick
ON_CLICK == "onClick"
\* the values of the keys the render function sets itself, lines 165-170:
\* the wrapper's own functions and the element reference
HANDLE_CLICK == "handleClick"
CONTAINER_REF == "containerRef"
VNODE_BEFORE_MOUNT == "onVnodeBeforeMount()"
\* values a caller passes for the declared key
PropValues(key) == IF key = ON_CLICK THEN ClickHandlers \ {UNDEFINED} ELSE Values

NoName == [isArray |-> FALSE, names |-> <<>>, name |-> UNDEFINED]
OneName(n) == [isArray |-> FALSE, names |-> <<>>, name |-> n]
NameArray(s) == [isArray |-> TRUE, names |-> s, name |-> UNDEFINED]

\* Calls of defineContainer(name, defineCustomElement, [props, events],
\* modelProp, modelUpdateEvent, externalModelUpdateEvent)
Containers ==
    { [componentProperties |-> <<"value", "ariaLabel">>,
       componentCustomEvents |-> <<"ionFocus">>,
       modelProp |-> "value",
       modelUpdateEvent |-> OneName("ionChange"),
       externalModelUpdateEvent |-> "ionChange"],
      [componentProperties |-> <<"routerDirection", "route">>,
       componentCustomEvents |-> <<>>,
       modelProp |-> UNDEFINED,
       modelUpdateEvent |-> NoName,
       externalModelUpdateEvent |-> UNDEFINED],
      [componentProperties |-> <<"color">>,
       componentCustomEvents |-> <<"ionBlur", "ionChange">>,
       modelProp |-> "checked",
       modelUpdateEvent |-> NameArray(<<"ionChange", "ionInput">>),
       externalModelUpdateEvent |-> UNDEFINED],
      [componentProperties |-> <<"value">>,
       componentCustomEvents |-> <<"ionChange">>,
       modelProp |-> "value",
       modelUpdateEvent |-> OneName("ionInput"),
       externalModelUpdateEvent |-> "ionChange"],
      [componentProperties |-> <<"checked">>,
       componentCustomEvents |-> <<"ionChange">>,
       modelProp |-> "checked",
       modelUpdateEvent |-> OneName("ionChange"),
       externalModelUpdateEvent |-> "ionChange"],
      [componentProperties |-> <<"onClick">>,
       componentCustomEvents |-> <<>>,
       modelProp |-> UNDEFINED,
       modelUpdateEvent |-> NoName,
       externalModelUpdateEvent |-> UNDEFINED] }

\* native events the underlying element may dispatch
NativeEventTypes == {"ionChange", "ionInput", "ionFocus", "ionBlur"}

---------------------------------------------------------------------------
(* JavaScript helpers *)

Range(s) == { s[i] : i \in 1..Len(s) }

\* String.prototype.startsWith
StartsWith(s, prefix) ==
    /\ Len(s) >= Len(prefix)
    /\ SubSeq(s, 1, Len(prefix)) = prefix

\* a value in a boolean context, for the strings of the model
Truthy(v) == v # UNDEFINED /\ v # ""

RECURSIVE SplitFrom(_, _, _)
SplitFrom(s, i, cur) ==
    IF i > Len(s) THEN <<cur>>
    ELSE IF SubSeq(s, i, i) = " " THEN <<cur>> \o SplitFrom(s, i + 1, "")
    ELSE SplitFrom(s, i + 1, cur \o SubSeq(s, i, i))

\* String.prototype.split(' ')
Split(s) == SplitFrom(s, 1, "")

RECURSIVE Join(_)
\* Array.prototype.join(' ')
Join(s) ==
    IF Len(s) = 0 THEN ""
    ELSE IF Len(s) = 1 THEN s[1]
    ELSE s[1] \o " " \o Join(Tail(s))

\* Array.prototype.indexOf, 1-based; 0 when absent
IndexOf(s, c) ==
    IF c \in Range(s) THEN CHOOSE i \in 1..Len(s) : s[i] = c /\ \A j \in 1..(i - 1) : s[j] # c
    ELSE 0

---------------------------------------------------------------------------
(* Records exchanged with the outside *)

\* a DOM event: its type, the value of target[modelProp], defaultPrevented
Event(type, target, prevented) ==
    [type |-> type, target |-> target, defaultPrevented |-> prevented]
NoEvent == Event("none", UNDEFINED, FALSE)

\* one observable output of a handler: emit(name, value | event),
\* navManager.navigate(entries + event), console.warn, a call of the caller's
\* click handler; cached is modelPropValue when the output is produced
Effect(op, name, value, event, entries, cached) ==
    [op |-> op, name |-> name, value |-> value, event |-> event,
     entries |-> entries, cached |-> cached]

\* props[key]: the value of a declared key, undefined for any other key
PropsGet(p, key) == IF key \in DOMAIN p THEN p[key] ELSE UNDEFINED

\* Container.props, lines 212-221 and 228-229: the declared keys
DeclaredProps(c) ==
    {ROUTER_LINK_VALUE} \cup Range(c.componentProperties)
        \cup (IF Truthy(c.modelProp) THEN {MODEL_VALUE} ELSE {})

\* Container.props, lines 212-221 and 228-229: every declared key with its
\* default, DEFAULT_EMPTY_PROP.default
ContainerProps(c) == [key \in DeclaredProps(c) |-> EMPTY_PROP]

\* Container.emits, lines 224-235, as the array of names it ends up holding
\* (empty when it is never assigned)
ContainerEmits(c) ==
    LET custom == IF Len(c.componentCustomEvents) > 0
                  THEN c.componentCustomEvents ELSE <<>>
    IN IF Truthy(c.modelProp)
       THEN custom \o <<UPDATE_VALUE_EVENT, c.externalModelUpdateEvent>>
       ELSE custom

---------------------------------------------------------------------------
(* Class helpers, lines 31-43 *)

\* (classes as string)?.split(' ') || []
getComponentClasses(cls) == IF cls = UNDEFINED THEN <<>> ELSE Split(cls)

RECURSIVE KeepFrom(_, _, _)
\* the filter callback of getElementClasses applied from index i on
KeepFrom(self, i, componentClasses) ==
    IF i > Len(self) THEN <<>>
    ELSE (IF self[i] \notin componentClasses /\ IndexOf(self, self[i]) = i
          THEN <<self[i]>> ELSE <<>>) \o KeepFrom(self, i + 1, componentClasses)

\* mutant: the wrapper's own classes are not excluded
getElementClassesKeepingOwn(refClassList, componentClasses, defaultClasses) ==
    KeepFrom(refClassList \o defaultClasses, 1, {})

\* getElementClasses(ref, componentClasses, defaultClasses = []); refClassList
\* is ref.value?.classList || []
getElementClasses(refClassList, componentClasses, defaultClasses) ==
    KeepFrom(refClassList \o defaultClasses, 1, componentClasses)

RECURSIVE Dedupe(_)
\* the ordered set of tokens a DOMTokenList keeps
Dedupe(s) ==
    IF Len(s) = 0 THEN <<>>
    ELSE LET front == Dedupe(SubSeq(s, 1, Len(s) - 1))
             last == s[Len(s)]
         IN IF last \in Range(front) THEN front ELSE Append(front, last)

\* classList of an element whose className is str
ClassListOf(str) == Dedupe(SelectSeq(Split(str), LAMBDA t : t # ""))

\* class of the root vnode: h() normalizes the array to a string and the
\* fallthrough attrs.class is merged after it
VNodeClass(merged, cls) ==
    LET own == Join(merged)
    IN IF cls = UNDEFINED THEN own
       ELSE IF own = "" THEN cls
       ELSE own \o " " \o cls

---------------------------------------------------------------------------
(* The arguments of defineContainer, by their names in the source *)

componentProperties == cfg.container.componentProperties
componentCustomEvents == cfg.container.componentCustomEvents
modelProp == cfg.container.modelProp
modelUpdateEvent == cfg.container.modelUpdateEvent
externalModelUpdateEvent == cfg.container.externalModelUpdateEvent
\* const navManager = hasRouter ? inject(NAV_MANAGER) : undefined
navManager == cfg.navManager

---------------------------------------------------------------------------
(* Mount-time wiring, lines 83-124 *)

\* Array.isArray(modelUpdateEvent) ? modelUpdateEvent : [modelUpdateEvent]
eventsNames(mue) == IF mue.isArray THEN mue.names ELSE <<mue.name>>

\* if (modelUpdateEvent): an array is truthy, a string unless empty
ModelUpdateEventSet(mue) == mue.isArray \/ Truthy(mue.name)

Listener(type, kind) == [type |-> type, kind |-> kind]

\* mutant: no listener is added for the declared custom events
onVnodeBeforeMountModelOnly(mue, customEvents) ==
    IF ModelUpdateEventSet(mue)
    THEN [i \in 1..Len(eventsNames(mue)) |-> Listener(eventsNames(mue)[i], "model")]
    ELSE <<>>

\* the listeners onVnodeBeforeMount adds to vnode.el, in order
onVnodeBeforeMount(mue, customEvents) ==
    (IF ModelUpdateEventSet(mue)
     THEN [i \in 1..Len(eventsNames(mue)) |-> Listener(eventsNames(mue)[i], "model")]
     ELSE <<>>)
    \o [i \in 1..Len(customEvents) |-> Listener(customEvents[i], "custom")]

\* mutant: the external event is emitted before the model update
ModelUpdateListenerExternalFirst(e, external) ==
    LET value == e.target
    IN [modelPropValue |-> value,
        effects |->
            (IF Truthy(external)
             THEN <<Effect("emit", external, UNDEFINED, e, <<>>, value)>>
             ELSE <<>>)
            \o <<Effect("emit", UPDATE_VALUE_EVENT, value, NoEvent, <<>>, value)>>]

\* the listener of lines 89-104 run on event e: the new modelPropValue and
\* the outputs it emits
ModelUpdateListener(e, external) ==
    LET value == e.target
    IN [modelPropValue |-> value,
        effects |->
            <<Effect("emit", UPDATE_VALUE_EVENT, value, NoEvent, <<>>, value)>>
            \o (IF Truthy(external)
                THEN <<Effect("emit", external, UNDEFINED, e, <<>>, value)>>
                ELSE <<>>)]

\* the listener of lines 118-120
CustomEventListener(eventName, e, mpv) ==
    <<Effect("emit", eventName, UNDEFINED, e, <<>>, mpv)>>

RECURSIVE Dispatch(_, _, _, _, _)
\* the element dispatches e: the listeners of e.type run in the order they
\* were added, from listener i on
Dispatch(ls, i, e, external, acc) ==
    IF i > Len(ls) THEN acc
    ELSE IF ls[i].type # e.type THEN Dispatch(ls, i + 1, e, external, acc)
    ELSE IF ls[i].kind = "model"
    THEN LET r == ModelUpdateListener(e, external)
         IN Dispatch(ls, i + 1, e, external,
                     [modelPropValue |-> r.modelPropValue,
                      effects |-> acc.effects \o r.effects])
    ELSE Dispatch(ls, i + 1, e, external,
                  [modelPropValue |-> acc.modelPropValue,
                   effects |-> acc.effects
                       \o CustomEventListener(ls[i].type, e, acc.modelPropValue)])

---------------------------------------------------------------------------
(* Router integration, lines 129-146 and 155-163 *)

\* the keys copied into navigationPayload, lines 135-140
RouterKeys(p) ==
    { key \in DOMAIN p : StartsWith(key, ROUTER_PROP_PREFIX) /\ p[key] # EMPTY_PROP }

\* handleRouterLink(ev): the outputs of one call
handleRouterLink(ev, p, nav) ==
    IF p[ROUTER_LINK_VALUE] = EMPTY_PROP THEN <<>>
    ELSE IF nav
    THEN <<Effect("navigate", "", UNDEFINED, ev,
                  [key \in RouterKeys(p) |-> p[key]], UNDEFINED)>>
    ELSE <<Effect("warn", "", UNDEFINED, NoEvent, <<>>, UNDEFINED)>>

\* the caller's click handler run on ev: the event after it returns
CallOldClick(oldClick, ev) ==
    IF oldClick = "preventDefault" THEN Event(ev.type, ev.target, TRUE) ELSE ev

\* handleClick(ev), lines 156-163, with oldClick = props.onClick of the last
\* render (line 155): the outputs of one call. oldClick is undefined when
\* onClick is not a declared property; an unset declared onClick is the
\* sentinel, which is not undefined, and calling it throws a TypeError
handleClick(oldClick, ev, p, nav) ==
    IF oldClick = UNDEFINED
    THEN (IF ~ev.defaultPrevented THEN handleRouterLink(ev, p, nav) ELSE <<>>)
    ELSE IF oldClick = EMPTY_PROP
    THEN <<Effect("throw", "TypeError", UNDEFINED, ev, <<>>, UNDEFINED)>>
    ELSE <<Effect("oldClick", "", UNDEFINED, ev, <<>>, UNDEFINED)>>
            \o (IF ~CallOldClick(oldClick, ev).defaultPrevented
                THEN handleRouterLink(CallOldClick(oldClick, ev), p, nav) ELSE <<>>)

\* the click listener the last render handed to h(), propsToAdd.onClick:
\* handleClick (line 168), unless the forwarding loop (lines 178-183)
\* overwrote the key with the caller's handler, which then runs alone
onClickListener(fwd, ev, p, nav) ==
    IF fwd[ON_CLICK] = HANDLE_CLICK
    THEN handleClick(PropsGet(p, ON_CLICK), ev, p, nav)
    ELSE <<Effect("oldClick", "", UNDEFINED, ev, <<>>, UNDEFINED)>>

---------------------------------------------------------------------------
(* The render function, lines 148-206 *)

\* mutant: the loop forwards every key, sentinel or not
ForwardedKeysNoSentinelCheck(p) == DOMAIN p

\* mutant: the loop has no exception for aria-prefixed keys
ForwardedKeysNoAria(p) == { key \in DOMAIN p : p[key] # EMPTY_PROP }

\* the keys the render function sets itself before the loop, lines 165-170,
\* the class key apart (it is propsToAdd.class): the element reference, the
\* wrapper's click handler and the mount hook
FixedProps ==
    ("ref" :> CONTAINER_REF) @@ (ON_CLICK :> HANDLE_CLICK)
        @@ ("onVnodeBeforeMount" :> VNODE_BEFORE_MOUNT)

\* the forwarding loop, lines 178-183
ForwardedKeys(p) ==
    { key \in DOMAIN p : p[key] # EMPTY_PROP \/ StartsWith(key, ARIA_PROP_PREFIX) }

\* mutant: the model property's own value is tested before modelValue
ModelPrecedenceOwnValueFirst(fwd, p, mp, mpv) ==
    IF ~Truthy(mp) THEN fwd
    ELSE IF mpv # EMPTY_PROP THEN (mp :> mpv) @@ fwd
    ELSE IF p[MODEL_VALUE] # EMPTY_PROP THEN (mp :> p[MODEL_VALUE]) @@ fwd
    ELSE fwd

\* model-value precedence, lines 185-203
ModelPrecedence(fwd, p, mp, mpv) ==
    IF ~Truthy(mp) THEN fwd
    ELSE IF p[MODEL_VALUE] # EMPTY_PROP THEN (mp :> p[MODEL_VALUE]) @@ fwd
    ELSE IF mpv # EMPTY_PROP THEN (mp :> mpv) @@ fwd
    ELSE fwd

\* mutant: the render function keeps the value cached by the listener
\* instead of re-reading props[modelProp] (line 149 missing)
RenderKeepingCache(p, cls, cs, refClassList, mp) ==
    LET mpv == modelPropValue
        newClasses == cs \cup Range(getComponentClasses(cls))
        merged == getElementClasses(refClassList, newClasses, <<>>)
        fwd == [key \in ForwardedKeys(p) |-> p[key]] @@ FixedProps
    IN [modelPropValue |-> mpv,
        classes |-> newClasses,
        propsToAdd |-> [class |-> merged, fwd |-> ModelPrecedence(fwd, p, mp, mpv)]]

\* mutant: the own class set is rebuilt from the current class input
RenderTrackingClassInput(p, cls, cs, refClassList, mp) ==
    LET mpv == PropsGet(p, mp)
        newClasses == Range(getComponentClasses(cls))
        merged == getElementClasses(refClassList, newClasses, <<>>)
        fwd == [key \in ForwardedKeys(p) |-> p[key]] @@ FixedProps
    IN [modelPropValue |-> mpv,
        classes |-> newClasses,
        propsToAdd |-> [class |-> merged, fwd |-> ModelPrecedence(fwd, p, mp, mpv)]]

\* one run of the render function on inputs p (props) and cls (attrs.class)
\* with closure state cs (classes) and the element's class list refClassList
Render(p, cls, cs, refClassList, mp) ==
    LET mpv == PropsGet(p, mp)
        newClasses == cs \cup Range(getComponentClasses(cls))
        merged == getElementClasses(refClassList, newClasses, <<>>)
        fwd == [key \in ForwardedKeys(p) |-> p[key]] @@ FixedProps
    IN [modelPropValue |-> mpv,
        classes |-> newClasses,
        propsToAdd |-> [class |-> merged, fwd |-> ModelPrecedence(fwd, p, mp, mpv)]]

\* the element's class list after the vnode is patched: className is set
\* when the vnode's class differs from the previous vnode's
PatchClass(oldVnodeClass, newVnodeClass, oldClassList) ==
    IF newVnodeClass # oldVnodeClass THEN ClassListOf(newVnodeClass) ELSE oldClassList

---------------------------------------------------------------------------
(* The React proxies generator, output-react.ts *)

\* tag names of the component descriptors
TagNames == {"x-a", "x-b", "x-ab"}
\* ComponentCompilerMeta, as far as the generator reads it
Descriptor(tagName, internal) == [tagName |-> tagName, internal |-> internal]
Descriptors == { Descriptor(t, i) : t \in TagNames, i \in BOOLEAN }
\* outputTarget.excludeComponents, after the default [] of line 14
ExcludeLists == { <<>>, <<"x-a">>, <<"x-b", "x-ab">> }
\* outputTarget.componentCorePackage of the runs of the model
COMPONENT_CORE_PACKAGE == "component-lib"
\* const IMPORT_TYPES, line 80
IMPORT_TYPES == "JSX"
\* the message of the Error of line 67
COPY_ERROR == "stencil is not properly intialized at this step. Notify the developer"
\* the rejection of readPackageJson (line 20) when package.json cannot be read
READ_ERROR == "readPackageJson rejected"
\* the TypeError of path.dirname(undefined) (line 21) when package.json has
\* no types field
TYPES_ERROR == "TypeError: The \"path\" argument must be of type string. Received undefined"
\* the rejection of compilerCtx.fs.writeFile (line 49)
WRITE_ERROR == "writeFile rejected"
\* the rejection of the promise config.sys.copy returned (lines 70, 11)
COPY_REJECTED == "sys.copy rejected"
\* what readPackageJson finds: a package.json with a types field, one
\* without, none that can be read
PackageJsons == {"types", "noTypes", "unreadable"}
\* resourcesFilesToCopy, lines 62-65
resourcesFilesToCopy == <<"utils.ts", "createComponent.tsx">>

LowerCase == "abcdefghijklmnopqrstuvwxyz"
UpperCase == "ABCDEFGHIJKLMNOPQRSTUVWXYZ"
\* position of a lower-case letter in the alphabet, 0 for any other character
LetterIndex(ch) ==
    IF \E i \in 1..Len(LowerCase) : SubSeq(LowerCase, i, i) = ch
    THEN CHOOSE i \in 1..Len(LowerCase) : SubSeq(LowerCase, i, i) = ch
    ELSE 0
\* UTF-16 code unit of a character of a tag name: '-' or a lower-case letter
CharCode(ch) == IF ch = "-" THEN 45 ELSE 96 + LetterIndex(ch)
\* String.prototype.toUpperCase on one character
ToUpperCase(ch) ==
    IF LetterIndex(ch) = 0 THEN ch
    ELSE SubSeq(UpperCase, LetterIndex(ch), LetterIndex(ch))

RECURSIVE StringLessFrom(_, _, _)
StringLessFrom(a, b, i) ==
    IF i > Len(b) THEN FALSE
    ELSE IF i > Len(a) THEN TRUE
    ELSE IF CharCode(SubSeq(a, i, i)) # CharCode(SubSeq(b, i, i))
         THEN CharCode(SubSeq(a, i, i)) < CharCode(SubSeq(b, i, i))
    ELSE StringLessFrom(a, b, i + 1)
\* a < b on JavaScript strings
StringLess(a, b) == StringLessFrom(a, b, 1)

RECURSIVE InsertSorted(_, _)
\* x placed behind every element whose tag name is not greater than its own
InsertSorted(sorted, x) ==
    IF Len(sorted) = 0 THEN <<x>>
    ELSE IF StringLess(x.tagName, Head(sorted).tagName) THEN <<x>> \o sorted
    ELSE <<Head(sorted)>> \o InsertSorted(Tail(sorted), x)

\* mutant: the descriptors are returned in the order given, unsorted
sortByKeepingOrder(cmps) == cmps

RECURSIVE sortBy(_)
\* sortBy(cmps, cmp => cmp.tagName) of ./utils: a sorted copy, ascending by
\* tag name, descriptors of equal tag name keeping their order
sortBy(cmps) ==
    IF Len(cmps) = 0 THEN <<>>
    ELSE InsertSorted(sortBy(SubSeq(cmps, 1, Len(cmps) - 1)), cmps[Len(cmps)])

RECURSIVE PascalFrom(_, _, _)
PascalFrom(str, i, startOfSegment) ==
    IF i > Len(str) THEN ""
    ELSE IF SubSeq(str, i, i) = "-" THEN PascalFrom(str, i + 1, TRUE)
    ELSE (IF startOfSegment THEN ToUpperCase(SubSeq(str, i, i)) ELSE SubSeq(str, i, i))
            \o PascalFrom(str, i + 1, FALSE)
\* dashToPascalCase of ./utils: kebab-case to PascalCase (my-button -> MyButton)
dashToPascalCase(str) == PascalFrom(str, 1, TRUE)

\* the filter callback of line 16
IsEmitted(excludeComponents, c) ==
    c.tagName \notin Range(excludeComponents) /\ ~c.internal

\* getFilteredComponents, lines 14-17
getFilteredComponents(excludeComponents, cmps) ==
    SelectSeq(sortBy(cmps), LAMBDA c : IsEmitted(excludeComponents, c))

\* the callback of components.map, lines 33-36: one import entry
ImportEntry(cmpMeta) ==
    LET tagNameAsPascal == dashToPascalCase(cmpMeta.tagName)
    IN "  " \o tagNameAsPascal \o " as Import" \o tagNameAsPascal

\* createComponentDefinition, lines 52-58: one factory-invocation statement
createComponentDefinition(cmpMeta) ==
    LET tagNameAsPascal == dashToPascalCase(cmpMeta.tagName)
    IN "export const " \o tagNameAsPascal
        \o " = /* #__PURE__ */createReactComponent<" \o IMPORT_TYPES \o "."
        \o tagNameAsPascal \o ", HTML" \o tagNameAsPascal \o "Element>(window, '"
        \o cmpMeta.tagName \o "', Import" \o tagNameAsPascal \o ");"

RECURSIVE JoinWith(_, _)
\* Array.prototype.join(sep)
JoinWith(s, sep) ==
    IF Len(s) = 0 THEN ""
    ELSE IF Len(s) = 1 THEN s[1]
    ELSE s[1] \o sep \o JoinWith(Tail(s), sep)

\* generateProxies, lines 25-47: the import entries, the definitions and the
\* text of the proxies file
generateProxies(components) ==
    LET imports == "/* tslint:disable */\n/* auto-generated react proxies */\n"
                    \o "import { createReactComponent } from './createComponent';\n"
        typeImports == "import { " \o IMPORT_TYPES \o " } from '"
                    \o COMPONENT_CORE_PACKAGE \o "';\n"
        importList == [i \in 1..Len(components) |-> ImportEntry(components[i])]
        sourceImports == "import {\n" \o JoinWith(importList, ",\n")
                    \o "\n// @ts-ignore\n} from '" \o COMPONENT_CORE_PACKAGE \o "';\n"
        definitions == [i \in 1..Len(components) |->
                            createComponentDefinition(components[i])]
        final == <<imports, typeImports, sourceImports, JoinWith(definitions, "\n")>>
    IN [importList |-> importList,
        definitions |-> definitions,
        finalText |-> JoinWith(final, "\n") \o "\n"]

\* mutant: the resources are copied without looking at config.sys
copyResourcesUnchecked(sysCopy) ==
    [threw |-> FALSE, error |-> UNDEFINED, copied |-> resourcesFilesToCopy]

\* copyResources, lines 60-77: throws when config.sys.copy is missing, else
\* hands the resource files to config.sys.copy and returns its promise
copyResources(sysCopy) ==
    IF ~sysCopy
    THEN [threw |-> TRUE, error |-> COPY_ERROR, copied |-> <<>>]
    ELSE [threw |-> FALSE, error |-> UNDEFINED, copied |-> resourcesFilesToCopy]

\* lines 20-21 of generateProxies: the error that ends it before any text is
\* built, undefined when there is none
readPackageJson(pkg) ==
    IF pkg = "unreadable" THEN READ_ERROR
    ELSE IF pkg = "noTypes" THEN TYPES_ERROR
    ELSE UNDEFINED

\* getFilteredComponents keeps the descriptor objects it was given: each is
\* followed here by its position in the components argument
WithRefs(cmps) ==
    [i \in 1..Len(cmps) |->
        [tagName |-> cmps[i].tagName, internal |-> cmps[i].internal, ref |-> i]]

\* the descriptor objects an array of references holds, as they are now
Deref(refs, live) == [i \in 1..Len(refs) |-> live[refs[i]]]

\* mutant: the resources are copied before the proxies are generated
reactProxyOutputCopyFirst(pc) ==
    CASE pc = "called" -> "getFilteredComponents"
      [] pc = "readPackageJson" -> "copyResources"
      [] OTHER -> "return"

\* reactProxyOutput, lines 6-12: what runs next at each position. The run
\* is suspended at "readPackageJson" (await of line 20), at "writeFile" (the
\* promise of line 49, awaited at line 10) and at "copy" (the promise of
\* config.sys.copy, awaited at line 11)
reactProxyOutput(pc) ==
    CASE pc = "called" -> "getFilteredComponents"
      [] pc = "readPackageJson" -> "generateProxies"
      [] pc = "writeFile" -> "writeFile"
      [] pc = "written" -> "copyResources"
      [] pc = "copy" -> "copy"
      [] OTHER -> "return"

\* the positions at which the run has returned to the event loop
Suspended == {"readPackageJson", "writeFile", "copy"}

\* sequences of descriptors of length at most n
RECURSIVE DescriptorLists(_)
DescriptorLists(n) ==
    IF n = 0 THEN { <<>> }
    ELSE DescriptorLists(n - 1)
            \cup { Append(l, d) : l \in { m \in DescriptorLists(n - 1) : Len(m) = n - 1 },
                                  d \in Descriptors }

\* a call of reactProxyOutput(compilerCtx, outputTarget, components, config)
\* that has not run yet
Call(components, excludeComponents, sysCopy) ==
    [pc |-> "called",
     components |-> components,
     live |-> components,
     excludeComponents |-> excludeComponents,
     sysCopy |-> sysCopy,
     filteredComponents |-> <<>>,
     importList |-> <<>>,
     definitions |-> <<>>,
     finalText |-> UNDEFINED,
     proxiesFile |-> UNDEFINED,
     copied |-> <<>>,
     error |-> UNDEFINED]
Calls ==
    { Call(components, excludeComponents, sysCopy) :
        components \in DescriptorLists(MaxComponents),
        excludeComponents \in ExcludeLists,
        sysCopy \in BOOLEAN }
\* the generator of a build in which no component is declared
NoComponents == Call(<<>>, <<>>, TRUE)

---------------------------------------------------------------------------
(* The wrapper instance as a state machine *)

\* setup(), lines 79-82 and 126-128, on the inputs of the first render
InitWrapper ==
    /\ cfg \in [container : Containers, navManager : BOOLEAN]
    /\ props \in [DeclaredProps(cfg.container) -> Values \cup ClickHandlers \cup {EMPTY_PROP}]
    /\ \A key \in DOMAIN props : props[key] \in PropValues(key) \cup {EMPTY_PROP}
    /\ attrsOnClick \in IF ON_CLICK \in DOMAIN props THEN {UNDEFINED} ELSE ClickHandlers
    /\ attrsClass \in ClassInputs
    /\ modelPropValue = PropsGet(props, modelProp)
    /\ classes = Range(getComponentClasses(attrsClass))
    /\ mounted = FALSE
    /\ listeners = <<>>
    /\ elClassList = <<>>
    /\ vnodeClass = UNDEFINED
    /\ propsToAdd = [class |-> <<>>, fwd |-> <<>>]
    /\ dispatched = NoEvent
    /\ effects = <<>>
    /\ warned = FALSE

\* a wrapper that is set up and a call of the generator
Init == InitWrapper /\ gen \in Calls

\* the render function runs on inputs p, cls, h and the vnode is patched
\* onto the mounted element
RenderWith(p, cls, h) ==
    LET r == Render(p, cls, classes, elClassList, modelProp)
        vc == VNodeClass(r.propsToAdd.class, cls)
    IN /\ mounted
       /\ props' = p
       /\ attrsClass' = cls
       /\ attrsOnClick' = h
       /\ modelPropValue' = r.modelPropValue
       /\ classes' = r.classes
       /\ propsToAdd' = r.propsToAdd
       /\ vnodeClass' = vc
       /\ elClassList' = PatchClass(vnodeClass, vc, elClassList)
       /\ dispatched' = NoEvent
       /\ effects' = <<>>
       /\ UNCHANGED <<cfg, mounted, listeners, warned, gen>>

\* first render and mount: containerRef is still empty when the render
\* function runs; the element is created from the vnode, onVnodeBeforeMount
\* runs with vnode.el set, and containerRef is filled
Mount ==
    LET r == Render(props, attrsClass, classes, <<>>, modelProp)
        vc == VNodeClass(r.propsToAdd.class, attrsClass)
    IN /\ ~mounted
       /\ mounted' = TRUE
       /\ modelPropValue' = r.modelPropValue
       /\ classes' = r.classes
       /\ propsToAdd' = r.propsToAdd
       /\ vnodeClass' = vc
       /\ elClassList' = ClassListOf(vc)
       /\ listeners' = onVnodeBeforeMount(modelUpdateEvent, componentCustomEvents)
       /\ dispatched' = NoEvent
       /\ effects' = <<>>
       /\ UNCHANGED <<cfg, props, attrsOnClick, attrsClass, warned, gen>>

\* a re-render with unchanged inputs
Rerender == RenderWith(props, attrsClass, attrsOnClick)

\* the parent passes a new value (or none) for one declared key; the wrapper
\* re-renders
SetProp ==
    \E key \in DOMAIN props : \E value \in PropValues(key) \cup {EMPTY_PROP} :
        /\ value # props[key]
        /\ RenderWith([props EXCEPT ![key] = value], attrsClass, attrsOnClick)

\* the parent passes a new class; the wrapper re-renders
SetClass ==
    \E cls \in ClassInputs :
        /\ cls # attrsClass
        /\ RenderWith(props, cls, attrsOnClick)

\* the parent passes another click handler to a wrapper that does not
\* declare onClick: it arrives in attrs, props is unchanged, the wrapper
\* re-renders
SetOnClick ==
    \E h \in ClickHandlers :
        /\ ON_CLICK \notin DOMAIN props
        /\ h # attrsOnClick
        /\ RenderWith(props, attrsClass, h)

\* the underlying element dispatches a native event whose target holds
\* `target` in its model property
NativeEvent ==
    \E type \in NativeEventTypes : \E target \in Values \cup {UNDEFINED} :
        LET e == Event(type, target, FALSE)
            r == Dispatch(listeners, 1, e, externalModelUpdateEvent,
                          [modelPropValue |-> modelPropValue, effects |-> <<>>])
        IN /\ mounted
           /\ modelPropValue' = r.modelPropValue
           /\ dispatched' = e
           /\ effects' = r.effects
           /\ UNCHANGED <<cfg, props, attrsOnClick, attrsClass, classes, mounted, listeners,
                          elClassList, vnodeClass, propsToAdd, warned, gen>>

\* the underlying element is clicked: the click listener of the last render
\* runs. (Vue, not this code, then runs attrs.onClick as a second listener;
\* that call is not an output of the wrapper and is not recorded.)
Click ==
    \E prevented \in BOOLEAN :
        LET ev == Event("click", UNDEFINED, prevented)
            out == onClickListener(propsToAdd.fwd, ev, props, navManager)
        IN /\ mounted
           /\ dispatched' = ev
           /\ effects' = out
           /\ warned' = (warned \/ \E i \in 1..Len(out) : out[i].op = "warn")
           /\ UNCHANGED <<cfg, props, attrsOnClick, attrsClass, modelPropValue, classes,
                          mounted, listeners, elClassList, vnodeClass, propsToAdd, gen>>

\* the underlying element adds a class to, or removes it from, its own
\* class list
ElementToggleClass ==
    \E c \in ElementOwnClasses :
        /\ mounted
        /\ elClassList' = IF c \in Range(elClassList)
                          THEN SelectSeq(elClassList, LAMBDA t : t # c)
                          ELSE Append(elClassList, c)
        /\ dispatched' = NoEvent
       /\ effects' = <<>>
        /\ UNCHANGED <<cfg, props, attrsOnClick, attrsClass, modelPropValue, classes,
                       mounted, listeners, vnodeClass, propsToAdd, warned, gen>>

\* the variables of the wrapper instance
wrapperVars == <<cfg, props, attrsOnClick, attrsClass, modelPropValue, classes, mounted,
                 listeners, elClassList, vnodeClass, propsToAdd, dispatched, effects,
                 warned>>

\* lines 7-20: filteredComponents is computed and generateProxies runs up to
\* its await of readPackageJson; filteredComponents holds the descriptor
\* objects themselves
GetFilteredComponents ==
    LET kept == getFilteredComponents(gen.excludeComponents, WithRefs(gen.live))
    IN /\ reactProxyOutput(gen.pc) = "getFilteredComponents"
       /\ gen' = [gen EXCEPT
                   !.pc = "readPackageJson",
                   !.filteredComponents = [i \in 1..Len(kept) |-> kept[i].ref]]
       /\ UNCHANGED wrapperVars

\* another callback changes the tag name of a descriptor object while the
\* run is suspended
RenameComponent ==
    \E i \in 1..Len(gen.live) : \E t \in TagNames :
        /\ gen.pc \in Suspended
        /\ t # gen.live[i].tagName
        /\ gen' = [gen EXCEPT !.live[i].tagName = t]
        /\ UNCHANGED wrapperVars

\* lines 20-49: readPackageJson settles, on a package.json with a types
\* field, one without, or none; generateProxies rejects (line 20 or 21), or
\* builds the text from the descriptors as they are now and calls
\* compilerCtx.fs.writeFile
GenerateProxies ==
    \E pkg \in PackageJsons :
        LET failed == readPackageJson(pkg)
            r == generateProxies(Deref(gen.filteredComponents, gen.live))
        IN /\ reactProxyOutput(gen.pc) = "generateProxies"
           /\ gen' = IF failed # UNDEFINED
                     THEN [gen EXCEPT !.pc = "rejected", !.error = failed]
                     ELSE [gen EXCEPT
                            !.pc = "writeFile",
                            !.importList = r.importList,
                            !.definitions = r.definitions,
                            !.finalText = r.finalText]
           /\ UNCHANGED wrapperVars

\* lines 49 and 10: the writeFile promise settles; the file holds the text,
\* or the run is rejected
WriteFile ==
    \E fulfilled \in BOOLEAN :
        /\ reactProxyOutput(gen.pc) = "writeFile"
        /\ gen' = IF fulfilled
                  THEN [gen EXCEPT !.pc = "written", !.proxiesFile = gen.finalText]
                  ELSE [gen EXCEPT !.pc = "rejected", !.error = WRITE_ERROR]
        /\ UNCHANGED wrapperVars

\* line 11, lines 60-77: copyResources runs; it throws, which rejects the
\* promise reactProxyOutput returned, or hands the resource files to
\* config.sys.copy, whose promise line 11 awaits
CopyResources ==
    LET r == copyResources(gen.sysCopy)
    IN /\ reactProxyOutput(gen.pc) = "copyResources"
       /\ gen' = [gen EXCEPT
                   !.pc = IF r.threw THEN "rejected" ELSE "copy",
                   !.error = r.error,
                   !.copied = r.copied]
       /\ UNCHANGED wrapperVars

\* line 11: the promise of config.sys.copy settles and reactProxyOutput
\* resolves, or rejects with the error of the copy
Copy ==
    \E fulfilled \in BOOLEAN :
        /\ reactProxyOutput(gen.pc) = "copy"
        /\ gen' = IF fulfilled
                  THEN [gen EXCEPT !.pc = "resolved"]
                  ELSE [gen EXCEPT !.pc = "rejected", !.error = COPY_REJECTED]
        /\ UNCHANGED wrapperVars

\* every operation of the wrapper and of its environment, and every step of
\* the generator
Next ==
    \/ GetFilteredComponents
    \/ RenameComponent
    \/ GenerateProxies
    \/ WriteFile
    \/ CopyResources
    \/ Copy
    \/ Mount
    \/ Rerender
    \/ SetProp
    \/ SetClass
    \/ SetOnClick
    \/ NativeEvent
    \/ Click
    \/ ElementToggleClass

Spec == Init /\ [][Next]_vars

(* The class state (attrs.class, classes, the element's class list) and the
   property state (props, attrs.onClick, modelPropValue, listeners) never read each
   other, so each is explored with the other held at its initial value. *)

\* properties, events and clicks, with no class input
InitForwarding == InitWrapper /\ attrsClass = UNDEFINED /\ gen = NoComponents
NextForwarding ==
    \/ Mount
    \/ Rerender
    \/ SetProp
    \/ SetOnClick
    \/ NativeEvent
    \/ Click
SpecForwarding == InitForwarding /\ [][NextForwarding]_vars

\* class reconciliation, with no property set and no click handler
InitClasses ==
    /\ InitWrapper
    /\ props = [key \in DOMAIN props |-> EMPTY_PROP]
    /\ attrsOnClick = UNDEFINED
    /\ cfg.navManager
    /\ gen = NoComponents
NextClasses ==
    \/ Mount
    \/ Rerender
    \/ SetClass
    \/ ElementToggleClass
SpecClasses == InitClasses /\ [][NextClasses]_vars

\* the generator alone, next to a wrapper that is set up and never mounted
InitGenerator ==
    /\ InitWrapper
    /\ cfg.container.componentProperties = <<"routerDirection", "route">>
    /\ cfg.navManager
    /\ props = [key \in DOMAIN props |-> EMPTY_PROP]
    /\ attrsOnClick = UNDEFINED
    /\ attrsClass = UNDEFINED
    /\ gen \in Calls
NextGenerator ==
    \/ GetFilteredComponents
    \/ RenameComponent
    \/ GenerateProxies
    \/ WriteFile
    \/ CopyResources
    \/ Copy
SpecGenerator == InitGenerator /\ [][NextGenerator]_vars

---------------------------------------------------------------------------
(* Properties of property forwarding *)

\* the keys and the values handed to the underlying element by the last
\* render: propsToAdd, its class key apart
Forwarded == propsToAdd.fwd
IsForwarded(key) == key \in DOMAIN Forwarded

\* the keys the render function always puts in propsToAdd, lines 165-170
FixedKeys == DOMAIN FixedProps \cup {"class"}

\* C1 as stated: after every render, no declared input whose value is the
\* unset sentinel is among the forwarded keys, whatever its name.
C1_SentinelContainmentAnySpelling ==
    mounted =>
        \A key \in DOMAIN props : props[key] = EMPTY_PROP => ~IsForwarded(key)

\* C1 amended: after every render, a declared input whose value is the unset
\* sentinel is not forwarded, unless its name starts with "aria", or it is
\* the model property and the modelValue input is set, or it is one of the
\* keys the render function always sets itself; such a fixed key is always
\* forwarded, never with the sentinel, and with the wrapper's own value when
\* the input of that name is unset or not declared.
C1_SentinelContainment ==
    mounted =>
        /\ \A key \in DOMAIN props :
            ( /\ props[key] = EMPTY_PROP
              /\ ~StartsWith(key, "aria")
              /\ ~(key = modelProp /\ props[MODEL_VALUE] # EMPTY_PROP)
              /\ key \notin FixedKeys )
            => ~IsForwarded(key)
        /\ \A key \in DOMAIN FixedProps :
            /\ IsForwarded(key)
            /\ Forwarded[key] # EMPTY_PROP
            /\ PropsGet(props, key) \in {EMPTY_PROP, UNDEFINED}
                => Forwarded[key] = FixedProps[key]

\* an unset plain property is withheld while a set one is forwarded
C1_Witness ==
    /\ mounted
    /\ "routerDirection" \in DOMAIN props
    /\ props["routerDirection"] = EMPTY_PROP
    /\ props["route"] = "v1"
    /\ IsForwarded("route")
    /\ ~IsForwarded("routerDirection")

\* C2: the unset sentinel never leaks: no forwarded value, no payload of an
\* emitted output and no entry of a navigation payload is the sentinel.
C2_SentinelNeverLeaks ==
    /\ \A key \in DOMAIN Forwarded : Forwarded[key] # EMPTY_PROP
    /\ \A i \in 1..Len(effects) :
        /\ effects[i].value # EMPTY_PROP
        /\ effects[i].event.target # EMPTY_PROP
        /\ \A key \in DOMAIN effects[i].entries : effects[i].entries[key] # EMPTY_PROP

\* C3: after every render, every input whose name starts with "aria" is
\* forwarded under its own name with the value of the input, the unset
\* sentinel included.
C3_AriaAlwaysForwarded ==
    mounted =>
        \A key \in DOMAIN props :
            StartsWith(key, "aria") =>
                /\ IsForwarded(key)
                /\ key # modelProp => Forwarded[key] = props[key]

\* an unset aria input is forwarded
C3_Witness ==
    /\ mounted
    /\ "ariaLabel" \in DOMAIN props
    /\ props["ariaLabel"] = EMPTY_PROP
    /\ IsForwarded("ariaLabel")

\* C4: precedence law: after every render of a wrapper with modelProp, a set
\* modelValue input is the value forwarded as the model property, whatever
\* the model property's own input and whatever an earlier event cached.
C4_ModelValueWins ==
    (mounted /\ Truthy(modelProp)) =>
        (props[MODEL_VALUE] # EMPTY_PROP =>
            /\ IsForwarded(modelProp)
            /\ Forwarded[modelProp] = props[MODEL_VALUE])

\* modelValue is set and the model property's own input holds another value
C4_Witness ==
    /\ mounted
    /\ modelProp = "value"
    /\ props[MODEL_VALUE] = "v1"
    /\ props["value"] = "v2"
    /\ Forwarded["value"] = "v1"

---------------------------------------------------------------------------
(* Properties of the model-update listener *)

\* the names of the configured native model-update events
ModelEventNames ==
    IF ModelUpdateEventSet(modelUpdateEvent)
    THEN Range(eventsNames(modelUpdateEvent)) ELSE {}

\* the last step dispatched a configured model-update event on the element
ModelEventFired == mounted /\ dispatched.type \in ModelEventNames

IsEmit(i, name) == effects[i].op = "emit" /\ effects[i].name = name

\* C5: ordering law: when a model-update event fires, update:modelValue is
\* emitted, and the external output (when configured) is emitted too, only
\* after update:modelValue, carrying the dispatched event, at a moment when
\* the cached value is the payload update:modelValue carried.
C5_UpdateBeforeExternal ==
    ModelEventFired =>
        /\ \E i \in 1..Len(effects) : IsEmit(i, UPDATE_VALUE_EVENT)
        /\ Truthy(externalModelUpdateEvent) =>
            /\ \E j \in 1..Len(effects) : IsEmit(j, externalModelUpdateEvent)
            /\ \A j \in 1..Len(effects) :
                IsEmit(j, externalModelUpdateEvent) =>
                    /\ effects[j].event = dispatched
                    /\ \E i \in 1..(j - 1) :
                        /\ IsEmit(i, UPDATE_VALUE_EVENT)
                        /\ effects[i].value = effects[j].cached

\* ionInput fired on a wrapper that re-emits it as ionChange
C5_Witness ==
    /\ ModelEventFired
    /\ dispatched.type = "ionInput"
    /\ dispatched.target = "v1"
    /\ Len(effects) = 2
    /\ IsEmit(1, UPDATE_VALUE_EVENT) /\ effects[1].value = "v1"
    /\ IsEmit(2, "ionChange") /\ effects[2].event = dispatched
    /\ effects[2].cached = "v1"

\* a step in which the render function runs on the mounted wrapper
RenderStep == Rerender \/ SetProp \/ SetClass \/ SetOnClick

\* C6 as stated: the value cached by a model-update event survives renders:
\* the render that follows the event, with modelValue unset, forwards the
\* cached value as the model property.
C6_CacheSurvivesRender ==
    [][ (ModelEventFired /\ Truthy(modelProp) /\ RenderStep
            /\ props'[MODEL_VALUE] = EMPTY_PROP)
        => ( /\ modelProp \in DOMAIN propsToAdd'.fwd
             /\ propsToAdd'.fwd[modelProp] = dispatched.target ) ]_vars

\* C6 amended: a model-update event emits update:modelValue with the value of
\* the element's model property and caches it; the cache lasts until the next
\* render, which re-reads the model property's own input: with modelValue
\* unset, a render forwards that own input as the model property, and
\* nothing when it is the sentinel.
C6_CacheResetByRender ==
    /\ ModelEventFired =>
        /\ \E i \in 1..Len(effects) :
            IsEmit(i, UPDATE_VALUE_EVENT) /\ effects[i].value = dispatched.target
        /\ modelPropValue = dispatched.target
    /\ (mounted /\ Truthy(modelProp) /\ props[MODEL_VALUE] = EMPTY_PROP) =>
        IF PropsGet(props, modelProp) # EMPTY_PROP
        THEN IsForwarded(modelProp) /\ Forwarded[modelProp] = PropsGet(props, modelProp)
        ELSE ~IsForwarded(modelProp)

\* an event cached v1 while the last render forwarded the own input v2
C6_Witness ==
    /\ ModelEventFired
    /\ modelProp = "value"
    /\ dispatched.target = "v1"
    /\ modelPropValue = "v1"
    /\ props[MODEL_VALUE] = EMPTY_PROP
    /\ props["value"] = "v2"
    /\ Forwarded["value"] = "v2"
    /\ \E i \in 1..Len(effects) : IsEmit(i, UPDATE_VALUE_EVENT) /\ effects[i].value = "v1"

---------------------------------------------------------------------------
(* Properties of class reconciliation *)

NoDuplicates(s) == \A i, j \in 1..Len(s) : s[i] = s[j] => i = j

\* C7: class reconciliation is idempotent: after any render (the first one
\* included), a second render with the same class input and the element's
\* class list left as the first one patched it computes the same merged class
\* list, and the list holds no duplicates.
C7_ClassReconciliationIdempotent ==
    [][ (Mount \/ Rerender \/ SetClass)
        => LET again == Render(props', attrsClass', classes', elClassList', modelProp)
           IN /\ again.propsToAdd.class = propsToAdd'.class
              /\ NoDuplicates(propsToAdd'.class) ]_vars

\* a render merged the element's own class x next to the wrapper's class a
C7_Witness ==
    /\ mounted
    /\ attrsClass = "a"
    /\ propsToAdd.class = <<"x">>
    /\ elClassList = <<"x", "a">>
    /\ vnodeClass = "x a"

---------------------------------------------------------------------------
(* Properties of click interception *)

\* the last step was a click on the underlying element
ClickFired == mounted /\ dispatched.type = "click"

\* the default of that click was prevented before it reached the wrapper's
\* listener
DefaultPrevented == dispatched.defaultPrevented

EffectsOf(op) == { i \in 1..Len(effects) : effects[i].op = op }

\* the click handler the caller supplied: through props when onClick is a
\* declared property, through attrs when it is not
CallerHandler ==
    IF ON_CLICK \in DOMAIN props
    THEN (IF props[ON_CLICK] = EMPTY_PROP THEN UNDEFINED ELSE props[ON_CLICK])
    ELSE attrsOnClick

\* C8: a click on a wrapper whose routerLink is set, with the default not
\* prevented and a navigation host available, invokes navigate exactly once,
\* with the click event and exactly the inputs whose name starts with
\* "router" and whose value is not the sentinel.
C8_NavigationPayload ==
    (ClickFired /\ props["routerLink"] # EMPTY_PROP /\ ~DefaultPrevented /\ navManager) =>
        /\ Cardinality(EffectsOf("navigate")) = 1
        /\ \A i \in EffectsOf("navigate") :
            /\ effects[i].event = dispatched
            /\ DOMAIN effects[i].entries \subseteq DOMAIN props
            /\ \A key \in DOMAIN props :
                /\ key \in DOMAIN effects[i].entries
                    <=> ( /\ Len(key) >= 6
                          /\ SubSeq(key, 1, 6) = "router"
                          /\ props[key] # EMPTY_PROP )
                /\ key \in DOMAIN effects[i].entries => effects[i].entries[key] = props[key]

\* C9: on every click the caller's click handler runs first, before any
\* router handling; navigate is not invoked when that handler prevented the
\* default; neither navigate nor the warning happens when routerLink is the
\* sentinel.
C9_ClickInterceptionOrder ==
    ClickFired =>
        /\ CallerHandler # UNDEFINED =>
            (1 \in EffectsOf("oldClick") /\ EffectsOf("oldClick") = {1})
        /\ CallerHandler = UNDEFINED => EffectsOf("oldClick") = {}
        /\ (DefaultPrevented \/ CallerHandler = "preventDefault") =>
            EffectsOf("navigate") = {}
        /\ props["routerLink"] = EMPTY_PROP =>
            (EffectsOf("navigate") = {} /\ EffectsOf("warn") = {})

\* C10: on a wrapper whose routerLink is set and that has no navigation
\* host, a click never throws and never invokes navigate, and once the
\* warning has been logged no later click logs it again.
C10_WarnedAtMostOnce ==
    [][ (Click /\ ~navManager /\ props[ROUTER_LINK_VALUE] # EMPTY_PROP) =>
        \A i \in 1..Len(effects') :
            /\ effects'[i].op # "navigate"
            /\ effects'[i].op # "throw"
            /\ warned => effects'[i].op # "warn" ]_vars

---------------------------------------------------------------------------
(* Properties of the declared interface *)

\* C14: the declared inputs are exactly the declared property names,
\* routerLink, and modelValue iff modelProp is set, each defaulting to the
\* sentinel; the declared outputs are exactly the declared event names,
\* update:modelValue iff modelProp is set, and the external event only when
\* one is configured (no undefined entry otherwise).
C14_DeclaredInterface ==
    LET c == cfg.container
        hasModel == c.modelProp # UNDEFINED
    IN /\ DOMAIN ContainerProps(c) =
            Range(c.componentProperties) \cup {"routerLink"}
                \cup (IF hasModel THEN {"modelValue"} ELSE {})
       /\ \A key \in DOMAIN ContainerProps(c) : ContainerProps(c)[key] = EMPTY_PROP
       /\ DOMAIN props = DOMAIN ContainerProps(c)
       /\ Range(ContainerEmits(c)) =
            Range(c.componentCustomEvents)
                \cup (IF hasModel THEN {"update:modelValue"} ELSE {})
                \cup (IF hasModel /\ c.externalModelUpdateEvent # UNDEFINED
                      THEN {c.externalModelUpdateEvent} ELSE {})

\* C15: after a render of a wrapper with modelProp, when modelValue is unset
\* and the caller set no value for the model property's own input, the model
\* property is not among the forwarded keys, whether or not modelProp is a
\* declared property.
C15_NothingToForward ==
    ( /\ mounted
      /\ Truthy(modelProp)
      /\ props[MODEL_VALUE] = EMPTY_PROP
      /\ (modelProp \in DOMAIN props => props[modelProp] = EMPTY_PROP) )
    => ~IsForwarded(modelProp)

---------------------------------------------------------------------------
(* Properties of the owned class set *)

\* the classes of the current class input
ClassInputSet == Range(getComponentClasses(attrsClass))

\* C16 as stated: at every render the wrapper's own class set is exactly the
\* set of classes of the current class input.
C16_OwnedSetIsCurrentInput ==
    mounted => classes = ClassInputSet

\* C16 amended: the wrapper's own class set only grows: at every render it
\* holds every class of the current class input and every class it held
\* before, so a class present only in an earlier class input stays in the own
\* set and stays excluded from the merged list.
C16_OwnedSetAccumulates ==
    [][ /\ classes \subseteq classes'
        /\ mounted' =>
            /\ Range(getComponentClasses(attrsClass')) \subseteq classes'
            /\ \A c \in classes' : c \notin Range(propsToAdd'.class) ]_vars

\* the class input went from a to b; a is still owned and is off the element
C16_Witness ==
    /\ mounted
    /\ attrsClass = "b"
    /\ classes = {"a", "b"}
    /\ elClassList = <<"x", "b">>
    /\ propsToAdd.class = <<"x">>

---------------------------------------------------------------------------
(* Properties of the class handed to the element *)

\* a step in which the render function runs, the first render included
ClassRenderStep == Mount \/ Rerender \/ SetClass

\* the class names of a set, the empty string (left by split) not being one
ClassNames(S) == S \ {""}

\* the merged list of the render of this step holds each class of the
\* element's live list that is not in the own set exactly once, and no class
\* of the own set
MergedListLaw ==
    /\ Range(propsToAdd'.class) = Range(elClassList) \ classes'
    /\ NoDuplicates(propsToAdd'.class)

\* C17 as stated: after every render the element's class set is the union of
\* the wrapper's own class set and the classes the element held itself, and
\* the merged list obeys the merged-list law.
C17_ElementReflectsOwnedUnion ==
    [][ ClassRenderStep =>
        /\ Range(elClassList') = ClassNames(classes') \cup Range(propsToAdd'.class)
        /\ MergedListLaw ]_vars

\* C17 amended: after every render the class handed to the element is the
\* union of the classes of the current class input and the merged list; a
\* class of the own set that is not in the current class input is not handed
\* over; the merged list obeys the merged-list law.
C17_VNodeClassIsInputUnion ==
    [][ ClassRenderStep =>
        /\ Range(ClassListOf(vnodeClass')) =
            ClassNames(Range(getComponentClasses(attrsClass'))) \cup Range(propsToAdd'.class)
        /\ \A c \in classes' \ Range(getComponentClasses(attrsClass')) :
            c \notin Range(ClassListOf(vnodeClass'))
        /\ MergedListLaw ]_vars

\* a render merged the element's class x with the class input "a  b"
C17_Witness ==
    /\ mounted
    /\ attrsClass = "a  b"
    /\ propsToAdd.class = <<"x">>
    /\ vnodeClass = "x a  b"
    /\ elClassList = <<"x", "a", "b">>

---------------------------------------------------------------------------
(* Properties of custom event forwarding *)

\* the forwarding listeners attached for a custom event name
CustomListeners(name) ==
    { i \in 1..Len(listeners) : listeners[i] = Listener(name, "custom") }

\* C18: no listener exists before mount; once mounted, and after any number
\* of renders, exactly one forwarding listener exists per declared custom
\* event, and a firing of that event emits the output of the same name
\* carrying the dispatched event.
C18_CustomEventForwarding ==
    /\ ~mounted => listeners = <<>>
    /\ mounted =>
        \A name \in Range(componentCustomEvents) :
            /\ Cardinality(CustomListeners(name)) = 1
            /\ dispatched.type = name =>
                \E i \in 1..Len(effects) :
                    /\ IsEmit(i, name)
                    /\ effects[i].event = dispatched
                    /\ effects[i].value = UNDEFINED

\* ionBlur fired on a wrapper that declares it
C18_Witness ==
    /\ mounted
    /\ dispatched = Event("ionBlur", "v1", FALSE)
    /\ Len(effects) = 1
    /\ IsEmit(1, "ionBlur")
    /\ effects[1].event = dispatched

\* C19: a single firing of a native event emits any given output name at
\* most once.
C19_NoDoubleEmission ==
    \A i, j \in EffectsOf("emit") :
        effects[i].name = effects[j].name => i = j

---------------------------------------------------------------------------
(* Properties of the generator *)

\* the positions of gen.components that hold a descriptor to be emitted
EmittedPositions ==
    { i \in 1..Len(gen.components) : IsEmitted(gen.excludeComponents, gen.components[i]) }

\* the positions of gen.components that hold a descriptor to be emitted whose
\* tag name is t
EmittedPositionsOf(t) == { i \in EmittedPositions : gen.components[i].tagName = t }

\* the proxies file has been written
ProxiesWritten == gen.proxiesFile # UNDEFINED

\* no descriptor differs from what was passed to reactProxyOutput
DescriptorsUntouched == gen.live = gen.components

\* the descriptors filteredComponents holds
FilteredComponents == Deref(gen.filteredComponents, gen.live)

\* how often the entry e occurs in the sequence s
Occurrences(s, e) == Cardinality({ i \in 1..Len(s) : s[i] = e })

\* C11: when the text is built from a descriptor list nobody changed since
\* the call, the module holds one import entry and one factory invocation
\* per descriptor that is neither internal nor excluded and none for any
\* other; both sequences are in ascending tag-name order; filtering before
\* sorting gives the same list as sorting before filtering; the text written
\* to the proxies file is that module.
C11_SelectionAndOrder ==
    [][ /\ ( /\ reactProxyOutput(gen.pc) = "generateProxies"
             /\ gen'.pc = "writeFile"
             /\ DescriptorsUntouched ) =>
            /\ Len(gen'.importList) = Cardinality(EmittedPositions)
            /\ Len(gen'.definitions) = Cardinality(EmittedPositions)
            /\ \A t \in TagNames :
                /\ Occurrences(gen'.importList, ImportEntry(Descriptor(t, FALSE)))
                    = Cardinality(EmittedPositionsOf(t))
                /\ Occurrences(gen'.definitions,
                               createComponentDefinition(Descriptor(t, FALSE)))
                    = Cardinality(EmittedPositionsOf(t))
            /\ \A i, j \in 1..Len(FilteredComponents) :
                i < j =>
                    ~StringLess(FilteredComponents[j].tagName,
                                FilteredComponents[i].tagName)
            /\ \A i \in 1..Len(FilteredComponents) :
                /\ gen'.importList[i] = ImportEntry(FilteredComponents[i])
                /\ gen'.definitions[i] = createComponentDefinition(FilteredComponents[i])
            /\ FilteredComponents =
                sortBy(SelectSeq(gen.components,
                                 LAMBDA c : IsEmitted(gen.excludeComponents, c)))
            /\ gen'.finalText = generateProxies(FilteredComponents).finalText
        /\ gen'.proxiesFile # gen.proxiesFile => gen'.proxiesFile = gen.finalText ]_vars

\* the descriptors x-b, x-a were emitted as XA, then XB
C11_Witness ==
    /\ gen.pc = "resolved"
    /\ DescriptorsUntouched
    /\ gen.components = <<Descriptor("x-b", FALSE), Descriptor("x-a", FALSE)>>
    /\ gen.excludeComponents = <<>>
    /\ gen.importList = <<"  XA as ImportXA", "  XB as ImportXB">>
    /\ Len(gen.definitions) = 2

\* C12 as stated: when the copy capability is missing, the run fails with the
\* configuration error at once, before anything is generated: nothing is
\* copied, the run never resolves, the proxies file is never written, and a
\* rejected run carries the configuration error.
C12_MissingCopyAbortsGeneration ==
    ~gen.sysCopy =>
        /\ gen.copied = <<>>
        /\ gen.pc # "resolved"
        /\ ~ProxiesWritten
        /\ gen.pc = "rejected" => gen.error = COPY_ERROR

\* C12 amended: when the copy capability is missing, no resource file is
\* ever handed to a copy and the run never resolves; a rejected run carries
\* the error of the package.json read, of the types lookup or of the proxies
\* write, or the configuration error, and it carries the configuration error
\* exactly when its proxies file was written; the step that reaches
\* copyResources finds the file written, leaves it as it is, and rejects the
\* run with the configuration error, copying nothing.
C12_MissingCopyIsFatal ==
    /\ [](~gen.sysCopy =>
            /\ gen.copied = <<>>
            /\ gen.pc \notin {"copy", "resolved"}
            /\ gen.pc = "rejected" =>
                /\ gen.error \in {READ_ERROR, TYPES_ERROR, WRITE_ERROR, COPY_ERROR}
                /\ gen.error = COPY_ERROR <=> ProxiesWritten)
    /\ [][ (~gen.sysCopy /\ reactProxyOutput(gen.pc) = "copyResources") =>
            /\ ProxiesWritten
            /\ gen'.proxiesFile = gen.proxiesFile
            /\ gen'.pc = "rejected"
            /\ gen'.error = COPY_ERROR
            /\ gen'.copied = <<>> ]_vars

\* a run without the copy capability was rejected with the configuration
\* error, its proxies file already written
C12_Witness ==
    /\ ~gen.sysCopy
    /\ gen.pc = "rejected"
    /\ gen.error = COPY_ERROR
    /\ gen.copied = <<>>
    /\ gen.proxiesFile = gen.finalText
    /\ Len(gen.components) > 0

\* two descriptors to be emitted share a tag name
DuplicateTagNames ==
    \E i, j \in EmittedPositions :
        i # j /\ gen.components[i].tagName = gen.components[j].tagName

\* C13: a run with two emitted descriptors of the same tag name never writes
\* a proxies module and never resolves.
C13_DuplicateTagNamesRejected ==
    DuplicateTagNames => ~ProxiesWritten /\ gen.pc # "resolved"

\* the copy step acts in this step: the capability check fails or the
\* resources are copied
CopyAttempted ==
    \/ gen'.copied # gen.copied
    \/ gen'.error = COPY_ERROR /\ gen.error # COPY_ERROR

\* C20: resources are copied, and the copy capability is checked, only after
\* the proxies file was written: a run that copied, resolved or was rejected
\* for the missing copy capability has written the proxies file; the copy
\* step acts only in a state in which the file is written.
C20_WriteBeforeCopy ==
    /\ []( ( \/ gen.copied # <<>>
             \/ gen.pc \in {"copy", "resolved"}
             \/ gen.pc = "rejected" /\ gen.error \in {COPY_ERROR, COPY_REJECTED} )
           => ProxiesWritten )
    /\ [][ CopyAttempted => ProxiesWritten ]_vars

\* a run was rejected for the missing copy capability with its proxies file
\* written
C20_Witness ==
    /\ gen.pc = "rejected"
    /\ gen.error = COPY_ERROR
    /\ ~gen.sysCopy
    /\ ProxiesWritten
    /\ Len(gen.filteredComponents) = 2

====
